---- MODULE Spec2Model ----
(***************************************************************************)
(* Escrow wallet ledger and timer-driven settlement of the coupon          *)
(* marketplace: WalletService (app/services/wallet_service.py), the order  *)
(* status functions (app/models/order.py), the scheduler job               *)
(* release_expired_holds (app/scheduler/tasks.py) and the unit of work of  *)
(* DatabaseManager.get_session (app/database.py).                          *)
(*                                                                         *)
(* Money is counted in units of 1/10000 of a shekel ("ticks"): a column    *)
(* of type Numeric(12, 2) holds multiples of 100 ticks, and a fee of 2, 3  *)
(* or 5 percent of such a value is a whole number of ticks.  Time is       *)
(* counted in hours.                                                       *)
(***************************************************************************)
EXTENDS Integers, Sequences, FiniteSets, TLC

\* ------------------------------------------------------------------ bounds

MaxTx == 4
MaxTxHold == 5
MaxLocks == 2
MaxTxAuction == 12
MaxTime == 24
MaxAuctionTime == 72

\* ------------------------------------------------------- program constants

BUYER_FEE_PERCENT == 2
SELLER_UNVERIFIED_FEE_PERCENT == 5
SELLER_VERIFIED_FEE_PERCENT == 3
DISPUTE_WINDOW_HOURS == 12
SELLER_HOLD_HOURS == 24
BID_LOCK_HOURS == 48
MAX_AUCTION_DURATION_HOURS == 168

\* A nullable column holding NULL (timestamps are >= 0).
NULL == 0 - 1

Users == {1, 2}
Orders == {1}

\* The auctions (Auction.id).
Auctions == {1}

\* The buyer, seller and total_amount (ticks) of the order rows.
OrderBuyer(o) == 1
OrderSeller(o) == 2
OrderTotal(o) == 2500

\* TransactionType
DEPOSIT == "deposit"
WITHDRAWAL == "withdrawal"
PURCHASE_DEBIT == "purchase_debit"
SALE_CREDIT == "sale_credit"
REFUND == "refund"
FEE_DEBIT == "fee_debit"
SYSTEM_ADJUSTMENT == "system_adjustment"
LOCK == "lock"
RELEASE == "release"
HOLD_LOCK == "hold_lock"
HOLD_RELEASE == "hold_release"

CreditTypes == {DEPOSIT, SALE_CREDIT, REFUND, SYSTEM_ADJUSTMENT}
DebitTypes == {PURCHASE_DEBIT, WITHDRAWAL, FEE_DEBIT}

\* OrderStatus ("none": the row does not exist yet)
PENDING == "pending"
PAID == "paid"
DELIVERED == "delivered"
IN_DISPUTE == "in_dispute"
RESOLVED == "resolved"
RELEASED == "released"
CANCELLED == "cancelled"
REFUNDED == "refunded"

\* AuctionStatus (cancelled is CANCELLED above; "none": the row does not exist)
ACTIVE == "active"
ENDED == "ended"
FINALIZED == "finalized"

\* ------------------------------------------------------------------- state

VARIABLES
  now,           \* the wall clock, in hours
  wallets,       \* user -> [total_balance, locked_balance], the committed rows
  transactions,  \* user -> the committed transactions of the user's wallet,
                 \* in creation order
  fund_locks,    \* user -> the committed fund locks of the user's wallet, in
                 \* creation order; the id of a lock is <<user, index>>
  orders,        \* order id -> the committed row of table orders
  last,          \* the last call that changed the database
  returned,      \* the call that has just ended without changing the database
                 \* (it raised, returned False or found nothing to do), until
                 \* its caller goes on
  room,          \* the transactions the bounded table still has room for
  sessions,      \* worker -> the call it is in the middle of and the wallet
                 \* row its session has read (Idle: none)
  auctions,      \* auction id -> the committed row of table auctions
  notifications  \* the messages the scheduler has sent through the bot:
                 \* <<"released", order>>, <<"won", auction>>

vars ==
  <<now, wallets, transactions, fund_locks, orders, last, returned, room, sessions,
    auctions, notifications>>

\* The workers that serve calls at once (handlers of the bot, jobs of the
\* scheduler), each with a session of its own.
Workers == {1, 2}

\* A worker that is in no call.
Idle ==
  [call |-> <<"none", "none", 0, 0>>,
   wallet |-> [total_balance |-> 0, locked_balance |-> 0]]

\* The id of no lock (a lock id that is None).
NoLock == <<0, 0>>

\* ------------------------------------------------------------ the database

\* A value written to a Numeric(12, 2) column: PostgreSQL rounds it to two
\* digits, halves away from zero.
Round(x) ==
  IF x >= 0 THEN ((x + 50) \div 100) * 100
            ELSE 0 - (((0 - x) + 50) \div 100) * 100

\* Table wallets without the CHECK constraint locked_balance >= 0.
NoLockedFloor(w) ==
  /\ w.total_balance >= 0
  /\ w.locked_balance <= w.total_balance

\* Table wallets without its CHECK constraints.
NoWalletConstraints(w) == TRUE

\* The CHECK constraints of table wallets.
WalletConstraints(w) ==
  /\ w.total_balance >= 0
  /\ w.locked_balance >= 0
  /\ w.locked_balance <= w.total_balance

\* The CHECK constraint of table fund_locks.
FundLockConstraints(l) == l.amount > 0

\* Wallet.available_balance
available_balance(w) == w.total_balance - w.locked_balance

\* Wallet.can_afford
can_afford(w, amount) == available_balance(w) >= amount

\* The session of one unit of work: the rows it sees and has flushed, and the
\* exception that ended it ("none" while it runs).
Session ==
  [w |-> wallets, tx |-> transactions, fl |-> fund_locks, ord |-> orders,
   auc |-> auctions, err |-> "none", ret |-> TRUE]

Raise(s, e) == [s EXCEPT !.err = e]

\* ------------------------------------------------------------ WalletService

\* The balances of a create_transaction whose release also takes the amount
\* off the total balance.
NewBalancesReleaseDebits(w, type, amount) ==
  CASE type \in CreditTypes \cup {HOLD_RELEASE} ->
         [total_balance |-> w.total_balance + amount,
          locked_balance |-> IF type = HOLD_RELEASE THEN w.locked_balance - amount
                             ELSE w.locked_balance]
    [] type \in DebitTypes ->
         [total_balance |-> w.total_balance - amount, locked_balance |-> w.locked_balance]
    [] type \in {LOCK, HOLD_LOCK} ->
         [total_balance |-> w.total_balance, locked_balance |-> w.locked_balance + amount]
    [] type = RELEASE ->
         [total_balance |-> w.total_balance - amount,
          locked_balance |-> w.locked_balance - amount]

\* The balances create_transaction computes for a transaction type.
NewBalances(w, type, amount) ==
  CASE type \in CreditTypes ->
         [total_balance |-> w.total_balance + amount, locked_balance |-> w.locked_balance]
    [] type \in DebitTypes ->
         [total_balance |-> w.total_balance - amount, locked_balance |-> w.locked_balance]
    [] type = LOCK ->
         [total_balance |-> w.total_balance, locked_balance |-> w.locked_balance + amount]
    [] type = RELEASE ->
         [total_balance |-> w.total_balance, locked_balance |-> w.locked_balance - amount]
    [] type = HOLD_LOCK ->
         [total_balance |-> w.total_balance, locked_balance |-> w.locked_balance + amount]
    [] type = HOLD_RELEASE ->
         [total_balance |-> w.total_balance + amount, locked_balance |-> w.locked_balance - amount]

\* A create_transaction that does not look at the available balance.
NoFundsCheck(w, type, amount) == FALSE

\* The guard of create_transaction: debits and locks need the available balance.
InsufficientFunds(w, type, amount) ==
  /\ type \in DebitTypes \cup {LOCK}
  /\ available_balance(w) < amount

\* The flush of the wallet row and of the new transaction row.
FlushTransaction(s, u, type, amount, rtype, rid) ==
  LET w == s.w[u]
      n == NewBalances(w, type, amount)
      row == [total_balance |-> Round(n.total_balance),
              locked_balance |-> Round(n.locked_balance)]
  IN IF ~WalletConstraints(row) THEN Raise(s, "IntegrityError")
     ELSE [s EXCEPT !.w[u] = row,
                    !.tx[u] = Append(@, [user_id |-> u, type |-> type,
                                      amount |-> Round(amount),
                                      reference_type |-> rtype, reference_id |-> rid,
                                      balance_before |-> w.total_balance,
                                      balance_after |-> row.total_balance,
                                      locked_before |-> w.locked_balance,
                                      locked_after |-> row.locked_balance])]

\* WalletService.create_transaction
create_transaction(s, u, type, amount, rtype, rid) ==
  IF s.err # "none" THEN s
  ELSE IF InsufficientFunds(s.w[u], type, amount) THEN Raise(s, "InsufficientFundsError")
  ELSE FlushTransaction(s, u, type, amount, rtype, rid)

\* The flush of a new fund_locks row.
FlushFundLock(s, u, amount, rtype, rid, expires_at) ==
  LET l == [user_id |-> u, amount |-> Round(amount), reference_type |-> rtype,
            reference_id |-> rid, is_active |-> TRUE, expires_at |-> expires_at,
            released_at |-> NULL]
  IN IF s.err # "none" THEN s
     ELSE IF ~FundLockConstraints(l) THEN Raise(s, "IntegrityError")
     ELSE [s EXCEPT !.fl[u] = Append(@, l)]

\* WalletService.create_fund_lock
create_fund_lock(s, u, amount, rtype, rid, expires_at) ==
  IF s.err # "none" THEN s
  ELSE IF ~can_afford(s.w[u], amount) THEN Raise(s, "InsufficientFundsError")
  ELSE FlushFundLock(create_transaction(s, u, LOCK, amount, rtype, rid),
                     u, amount, rtype, rid, expires_at)

\* A lock looked up by its id alone, released or not.
LockExists(s, lock_id) ==
  /\ lock_id[1] \in Users
  /\ lock_id[2] \in DOMAIN s.fl[lock_id[1]]

\* The row release_fund_lock and update_fund_lock_amount select: the lock of
\* that id, if it is active.
ActiveLock(s, lock_id) ==
  /\ lock_id[1] \in Users
  /\ lock_id[2] \in DOMAIN s.fl[lock_id[1]]
  /\ s.fl[lock_id[1]][lock_id[2]].is_active

\* The fund_locks row of an id.
LockRow(s, lock_id) == s.fl[lock_id[1]][lock_id[2]]

\* WalletService.release_fund_lock
release_fund_lock(s, lock_id) ==
  IF s.err # "none" THEN s
  ELSE IF ~ActiveLock(s, lock_id) THEN [s EXCEPT !.ret = FALSE]
  ELSE LET l == LockRow(s, lock_id)
           s1 == [s EXCEPT !.fl[lock_id[1]][lock_id[2]].is_active = FALSE,
                           !.fl[lock_id[1]][lock_id[2]].released_at = now,
                           !.ret = TRUE]
       IN create_transaction(s1, l.user_id, RELEASE, l.amount,
                             l.reference_type, l.reference_id)

\* WalletService.update_fund_lock_amount
update_fund_lock_amount(s, lock_id, new_amount) ==
  IF s.err # "none" THEN s
  ELSE IF ~ActiveLock(s, lock_id) THEN [s EXCEPT !.ret = FALSE]
  ELSE LET l == LockRow(s, lock_id)
           amount_diff == new_amount - l.amount
           s1 == IF amount_diff > 0
                   THEN IF ~can_afford(s.w[l.user_id], amount_diff)
                          THEN Raise(s, "InsufficientFundsError")
                          ELSE create_transaction(s, l.user_id, LOCK, amount_diff,
                                                  l.reference_type, l.reference_id)
                 ELSE IF amount_diff < 0
                   THEN create_transaction(s, l.user_id, RELEASE, 0 - amount_diff,
                                           l.reference_type, l.reference_id)
                 ELSE s
           row == [l EXCEPT !.amount = Round(new_amount)]
       IN IF s1.err # "none" THEN s1
          ELSE IF ~FundLockConstraints(row) THEN Raise(s1, "IntegrityError")
          ELSE [s1 EXCEPT !.fl[lock_id[1]][lock_id[2]] = row, !.ret = TRUE]

\* calculate_fees (app/models/user.py), with is_buyer = True
calculate_fees(amount, seller_verified) ==
  [buyer_fee |-> (amount * BUYER_FEE_PERCENT) \div 100,
   seller_fee |-> IF seller_verified
                    THEN (amount * SELLER_VERIFIED_FEE_PERCENT) \div 100
                    ELSE (amount * SELLER_UNVERIFIED_FEE_PERCENT) \div 100]

\* WalletService.process_purchase
process_purchase(s, buyer_id, seller_id, total_amount, order_id, seller_verified) ==
  LET fees == calculate_fees(total_amount, seller_verified)
      buyer_total == total_amount + fees.buyer_fee
      seller_net == total_amount - fees.seller_fee
      s1 == create_transaction(s, buyer_id, PURCHASE_DEBIT, buyer_total, "order", order_id)
  IN create_transaction(s1, seller_id, HOLD_LOCK, seller_net, "order", order_id)

\* The hold_lock transactions of a seller's wallet for an order: the rows the
\* select of release_seller_hold and of process_refund returns.
HoldTransactions(s, seller_id, order_id) ==
  {i \in DOMAIN s.tx[seller_id] :
     /\ s.tx[seller_id][i].type = HOLD_LOCK
     /\ s.tx[seller_id][i].reference_type = "order"
     /\ s.tx[seller_id][i].reference_id = order_id}

\* WalletService.release_seller_hold (scalar_one_or_none raises on two rows)
release_seller_hold(s, order_id, seller_id) ==
  LET holds == HoldTransactions(s, seller_id, order_id)
  IN IF s.err # "none" THEN s
     ELSE IF Cardinality(holds) > 1 THEN Raise(s, "MultipleResultsFound")
     ELSE IF holds = {} THEN [s EXCEPT !.ret = FALSE]
     ELSE LET hold_transaction == s.tx[seller_id][CHOOSE i \in holds : TRUE]
          IN create_transaction([s EXCEPT !.ret = TRUE], seller_id, HOLD_RELEASE,
                                hold_transaction.amount, "order", order_id)

\* A refund that discharges the seller's hold with a hold release, which
\* credits the seller.
RefundWithHoldRelease(s, order_id, buyer_id, seller_id, refund_amount, partial) ==
  LET s1 == create_transaction(s, buyer_id, REFUND, refund_amount, "order", order_id)
      holds == HoldTransactions(s1, seller_id, order_id)
  IN IF s1.err # "none" \/ partial THEN s1
     ELSE IF Cardinality(holds) > 1 THEN Raise(s1, "MultipleResultsFound")
     ELSE IF holds = {} THEN s1
     ELSE create_transaction(s1, seller_id, HOLD_RELEASE,
                             s1.tx[seller_id][CHOOSE i \in holds : TRUE].amount, "order", order_id)

\* WalletService.process_refund
process_refund(s, order_id, buyer_id, seller_id, refund_amount, partial) ==
  LET s1 == create_transaction(s, buyer_id, REFUND, refund_amount, "order", order_id)
      holds == HoldTransactions(s1, seller_id, order_id)
  IN IF s1.err # "none" \/ partial THEN s1
     ELSE IF Cardinality(holds) > 1 THEN Raise(s1, "MultipleResultsFound")
     ELSE IF holds = {} THEN s1
     ELSE create_transaction(s1, seller_id, RELEASE,
                             s1.tx[seller_id][CHOOSE i \in holds : TRUE].amount, "order", order_id)

\* WalletService.admin_add_balance
admin_add_balance(s, user_id, amount, admin_id) ==
  create_transaction(s, user_id, SYSTEM_ADJUSTMENT, amount, "admin_adjustment", admin_id)

\* The order of two lock ids <<user, index>>.
Before(i, j) == i[1] < j[1] \/ (i[1] = j[1] /\ i[2] <= j[2])

\* The ids of the fund locks of a session.
AllLocks(s) == UNION {{<<u, i>> : i \in DOMAIN s.fl[u]} : u \in Users}

\* release_fund_lock applied to each lock of a list of ids, in turn.
RECURSIVE ReleaseEach(_, _)
ReleaseEach(s, ids) ==
  IF ids = <<>> \/ s.err # "none" THEN s
  ELSE ReleaseEach(release_fund_lock(s, Head(ids)), Tail(ids))

\* The locks a select returned, as a list (a select with no ORDER BY: here in
\* the order of the ids).
RECURSIVE IdList(_)
IdList(ids) ==
  IF ids = {} THEN <<>>
  ELSE LET first == CHOOSE i \in ids : \A j \in ids : Before(i, j)
       IN <<first>> \o IdList(ids \ {first})

\* WalletService.release_auction_losing_bids
release_auction_losing_bids(s, auction_id, winner_id) ==
  LET losing_locks == {i \in AllLocks(s) :
                         /\ LockRow(s, i).reference_type = "auction"
                         /\ LockRow(s, i).reference_id = auction_id
                         /\ LockRow(s, i).user_id # winner_id
                         /\ LockRow(s, i).is_active}
  IN IF s.err # "none" THEN s ELSE ReleaseEach(s, IdList(losing_locks))

\* The reference id f"auction_{auction_id}" finalize_auction gives the
\* purchase: no order has it.
AuctionOrderRef(auction_id) == 100 + auction_id

\* WalletService.finalize_auction
finalize_auction(s, auction_id, winner_id, winning_amount, seller_id, seller_verified) ==
  process_purchase(release_auction_losing_bids(s, auction_id, winner_id),
                   winner_id, seller_id, winning_amount,
                   AuctionOrderRef(auction_id), seller_verified)

\* WalletService.place_auction_bid
place_auction_bid(s, bidder_id, auction_id, bid_amount, previous_bid_lock_id) ==
  LET s1 == IF previous_bid_lock_id # NoLock
              THEN release_fund_lock(s, previous_bid_lock_id) ELSE s
  IN create_fund_lock([s1 EXCEPT !.ret = TRUE], bidder_id, bid_amount, "auction",
                      auction_id, now + BID_LOCK_HOURS)

\* WalletService.get_expired_fund_locks
get_expired_fund_locks(s) ==
  {i \in AllLocks(s) :
     /\ LockRow(s, i).is_active
     /\ LockRow(s, i).expires_at # NULL
     /\ LockRow(s, i).expires_at < now}

\* WalletService.cleanup_expired_locks
cleanup_expired_locks(s) ==
  IF s.err # "none" THEN s
  ELSE ReleaseEach(s, IdList(get_expired_fund_locks(s)))

\* WalletService.get_orders_ready_for_release
get_orders_ready_for_release(s) ==
  {o \in Orders :
     /\ s.ord[o].status = DELIVERED
     /\ s.ord[o].seller_hold_until # NULL
     /\ s.ord[o].seller_hold_until <= now
     /\ s.ord[o].buyer_confirmed_at = NULL}

\* ------------------------------------------------ orders (app/models/order.py)

\* The row of an auction that does not exist.
NoAuction ==
  [status |-> "none", seller_id |-> NULL, starting_price |-> NULL, current_price |-> NULL,
   starts_at |-> NULL, ends_at |-> NULL, extended_until |-> NULL, winner_id |-> NULL,
   finalized_at |-> NULL]

\* The row of an order that does not exist yet.
NoOrder ==
  [status |-> "none", purchased_at |-> NULL, dispute_window_until |-> NULL,
   seller_hold_until |-> NULL, buyer_confirmed_at |-> NULL, reported_at |-> NULL]

\* create_purchase_order
create_purchase_order(s, o) == [s EXCEPT !.ord[o].status = PENDING]

\* mark_order_paid
mark_order_paid(s, o) ==
  [s EXCEPT !.ord[o].status = PAID, !.ord[o].purchased_at = now]

\* Order.set_purchase_timers
set_purchase_timers(s, o) ==
  [s EXCEPT !.ord[o].purchased_at = now,
            !.ord[o].dispute_window_until = now + DISPUTE_WINDOW_HOURS,
            !.ord[o].seller_hold_until = now + SELLER_HOLD_HOURS]

\* mark_order_delivered
mark_order_delivered(s, o) ==
  set_purchase_timers([s EXCEPT !.ord[o].status = DELIVERED], o)

\* buyer_confirm_order
buyer_confirm_order(s, o) ==
  [s EXCEPT !.ord[o].buyer_confirmed_at = now, !.ord[o].status = RELEASED]

\* A window that is still open at the instant of its deadline.
WindowOpenAtDeadline(order) ==
  IF order.dispute_window_until = NULL THEN FALSE
  ELSE now <= order.dispute_window_until

\* Order.is_dispute_window_open
is_dispute_window_open(order) ==
  IF order.dispute_window_until = NULL THEN FALSE
  ELSE now < order.dispute_window_until

\* Order.can_report_dispute
can_report_dispute(order) ==
  /\ order.status = DELIVERED
  /\ is_dispute_window_open(order)
  /\ order.reported_at = NULL

\* report_dispute
report_dispute(s, o) ==
  IF ~can_report_dispute(s.ord[o]) THEN Raise(s, "ValueError")
  ELSE [s EXCEPT !.ord[o].status = IN_DISPUTE, !.ord[o].reported_at = now]

\* resolve_dispute
resolve_dispute(s, o) == [s EXCEPT !.ord[o].status = RESOLVED]

\* ---------------------------------------------- auctions (app/models/order.py)

\* end_time = self.extended_until or self.ends_at
end_time(auction) ==
  IF auction.extended_until # NULL THEN auction.extended_until ELSE auction.ends_at

\* Auction.is_active
is_active(auction) ==
  /\ auction.status = ACTIVE
  /\ auction.starts_at <= now
  /\ now <= end_time(auction)

\* Auction.should_extend (the clock counts hours: time_left is in minutes)
should_extend(auction, bid_time, extension_minutes) ==
  IF ~is_active(auction) THEN FALSE
  ELSE LET time_left == (end_time(auction) - bid_time) * 60
       IN time_left <= extension_minutes

\* Auction.extend_auction (extension_minutes is a number of whole hours)
extend_auction(s, a, extension_minutes) ==
  [s EXCEPT !.auc[a].extended_until = now + extension_minutes \div 60]

\* ------------------------------------- the scheduler (app/scheduler/tasks.py)

\* The loop of release_expired_holds over the orders ready for release: each
\* released order is committed at once, so the session that reaches the next
\* order holds nothing uncommitted; an exception ends the job and leaves what
\* was committed.
\* The orders a select returned, as a list.
RECURSIVE OrderList(_)
OrderList(ids) ==
  IF ids = {} THEN <<>>
  ELSE LET first == CHOOSE i \in ids : \A j \in ids : i <= j
       IN <<first>> \o OrderList(ids \ {first})

RECURSIVE ReleaseOrders(_, _)
ReleaseOrders(s, ids) ==
  IF ids = <<>> \/ s.err # "none" THEN s
  ELSE LET o == Head(ids)
           s1 == IF s.ord[o].status = DELIVERED
                   THEN release_seller_hold(s, o, OrderSeller(o))
                   ELSE [s EXCEPT !.ret = FALSE]
       IN IF s1.err # "none" THEN Raise(s, s1.err)
          ELSE IF s1.ret
            THEN ReleaseOrders([s1 EXCEPT !.ord[o].status = RELEASED], Tail(ids))
          ELSE ReleaseOrders(s, Tail(ids))

\* A job that releases the hold of every order whose seller_hold_until has
\* passed, whatever the status of the order.
RECURSIVE ReleaseDue(_, _)
ReleaseDue(s, ids) ==
  IF ids = <<>> \/ s.err # "none" THEN s
  ELSE LET o == Head(ids)
           s1 == release_seller_hold(s, o, OrderSeller(o))
       IN IF s1.err # "none" THEN Raise(s, s1.err)
          ELSE IF s1.ret
            THEN ReleaseDue([s1 EXCEPT !.ord[o].status = RELEASED], Tail(ids))
          ELSE ReleaseDue(s, Tail(ids))

release_due_holds(s) ==
  ReleaseDue(s, OrderList({o \in Orders : /\ s.ord[o].seller_hold_until # NULL
                                         /\ s.ord[o].seller_hold_until <= now}))

\* SchedulerService.release_expired_holds: the orders, then the expired locks,
\* whose releases are committed when the session ends without an exception.
release_expired_holds(s) ==
  LET s1 == ReleaseOrders(s, OrderList(get_orders_ready_for_release(s)))
      s2 == cleanup_expired_locks(s1)
  IN IF s1.err # "none" THEN s1
     ELSE IF s2.err # "none" THEN Raise(s1, s2.err)
     ELSE s2

\* The auctions finalize_ended_auctions selects: active, and past ends_at or,
\* when extended, past extended_until.
ended_auctions(s) ==
  {a \in Auctions :
     /\ s.auc[a].status = ACTIVE
     /\ \/ s.auc[a].extended_until = NULL /\ s.auc[a].ends_at <= now
        \/ s.auc[a].extended_until # NULL /\ s.auc[a].extended_until <= now}

\* A finalization that also releases the bids of an auction nobody won.
FinalizeReleasingBids(s, a) ==
  LET auction == s.auc[a]
      s0 == [s EXCEPT !.auc[a].status = ENDED]
      s1 == finalize_auction(s0, a, auction.winner_id, auction.current_price,
                             auction.seller_id, FALSE)
  IN IF auction.winner_id = NULL THEN release_auction_losing_bids(s0, a, NULL)
     ELSE IF s1.err # "none" THEN Raise(s, s1.err)
     ELSE [s1 EXCEPT !.auc[a].status = FINALIZED, !.auc[a].finalized_at = now]

\* A finalization that keeps what it did before the exception: the status
\* ended and the losing bids released.
FinalizeKeepingPartial(s, a) ==
  LET auction == s.auc[a]
      s0 == [s EXCEPT !.auc[a].status = ENDED]
      s1 == finalize_auction(s0, a, auction.winner_id, auction.current_price,
                             auction.seller_id, FALSE)
  IN IF auction.winner_id = NULL THEN s0
     ELSE IF s1.err # "none"
       THEN [release_auction_losing_bids(s0, a, auction.winner_id) EXCEPT !.err = s1.err]
     ELSE [s1 EXCEPT !.auc[a].status = FINALIZED, !.auc[a].finalized_at = now]

\* SchedulerService._finalize_auction, to its commit: the status ended, and
\* for an auction with a winner the charge of the winner and the status
\* finalized; an exception is logged and the session rolled back.  A winner
\* has a winning bid and a coupon, and the seller has no verified profile
\* (_is_seller_verified returns False).
finalize_one_auction(s, a) ==
  LET auction == s.auc[a]
      s0 == [s EXCEPT !.auc[a].status = ENDED]
      s1 == finalize_auction(s0, a, auction.winner_id, auction.current_price,
                             auction.seller_id, FALSE)
  IN IF auction.winner_id = NULL THEN s0
     ELSE IF s1.err # "none" THEN Raise(s, s1.err)
     ELSE [s1 EXCEPT !.auc[a].status = FINALIZED, !.auc[a].finalized_at = now]

\* The loop of finalize_ended_auctions: _finalize_auction catches its
\* exception, so the loop goes on in the session as _finalize_auction left
\* it; err is the last exception logged.
RECURSIVE FinalizeAuctions(_, _)
FinalizeAuctions(s, ids) ==
  IF ids = <<>> THEN s
  ELSE LET s1 == finalize_one_auction([s EXCEPT !.err = "none"], Head(ids))
           rest == FinalizeAuctions([s1 EXCEPT !.err = "none"], Tail(ids))
       IN IF rest.err = "none" /\ s1.err # "none" THEN [rest EXCEPT !.err = s1.err]
          ELSE rest

\* SchedulerService.finalize_ended_auctions
finalize_ended_auctions(s) == FinalizeAuctions(s, OrderList(ended_auctions(s)))

\* ---------------------------------------------------------- units of work

\* The rows of the database.
Database ==
  [w |-> wallets, tx |-> transactions, fl |-> fund_locks, ord |-> orders, auc |-> auctions]

Rows(s) == [w |-> s.w, tx |-> s.tx, fl |-> s.fl, ord |-> s.ord, auc |-> s.auc]

\* A session that commits what it flushed, exception or not.
CommitFlushed(s) == Rows(s)

\* DatabaseManager.get_session: the session's work is committed when it ends
\* without an exception and rolled back when it raises.
get_session(s) == IF s.err = "none" THEN Rows(s) ELSE Database

Result(s) ==
  IF s.err # "none" THEN s.err ELSE IF s.ret THEN "ok" ELSE "false"

NoCall ==
  [op |-> "none", type |-> "none", user |-> NULL, ref |-> NoLock, amount |-> NULL,
   res |-> "ok"]

\* The number of rows of a table kept per user.
RowCount(table) ==
  LET RECURSIVE Sum(_)
      Sum(U) == IF U = {} THEN 0
                ELSE LET u == CHOOSE x \in U : TRUE
                     IN Len(table[u]) + Sum(U \ {u})
  IN Sum(Users)

\* A call, whose unit of work leaves the rows db: the rows are committed and
\* the call is recorded, in last when it changed a row and in returned when
\* it did not.  No call starts before the caller has gone on from the one
\* before.
Record(call, db) ==
  /\ returned = NoCall
  /\ RowCount(db.tx) - RowCount(transactions) <= room
  /\ room' = room - (RowCount(db.tx) - RowCount(transactions))
  /\ \A u \in Users : Len(db.fl[u]) <= MaxLocks
  /\ wallets' = db.w
  /\ transactions' = db.tx
  /\ fund_locks' = db.fl
  /\ orders' = db.ord
  /\ auctions' = db.auc
  /\ IF db = Database
       THEN returned' = call /\ UNCHANGED last
       ELSE last' = call /\ UNCHANGED returned
  /\ UNCHANGED now

\* A call made in a session of get_session, from its first read to its commit
\* with no other session in between.
Call(op, type, user, ref, amount, s) ==
  /\ Record([op |-> op, type |-> type, user |-> user, ref |-> ref, amount |-> amount,
             res |-> Result(s)],
            get_session(s))
  /\ UNCHANGED <<sessions, notifications>>

\* SchedulerService._notify_seller_payment_released: the messages a run of
\* release_expired_holds sends, one for each order whose release it has
\* committed.
ReleaseNotifications(db) ==
  {<<"released", o>> : o \in {i \in Orders : /\ orders[i].status = DELIVERED
                                             /\ db.ord[i].status = RELEASED}}

\* SchedulerService._notify_auction_winner: the messages a run of
\* finalize_ended_auctions sends, one for each auction it finalizes.
WinnerNotifications(db) ==
  {<<"won", a>> : a \in {i \in Auctions : /\ auctions[i].status = ACTIVE
                                          /\ db.auc[i].status = FINALIZED}}

\* The job commits as it goes: the rows it returns are the rows committed,
\* whether or not an exception ended it.
JobCall(op, s) ==
  /\ Record([op |-> op, type |-> "none", user |-> NULL, ref |-> NoLock, amount |-> NULL,
             res |-> IF s.err # "none" THEN s.err ELSE "ok"],
            Rows(s))
  /\ notifications' = notifications \cup ReleaseNotifications(Rows(s))
                                     \cup WinnerNotifications(Rows(s))
  /\ UNCHANGED sessions

\* --------------------------------------------------------------- the inputs

\* The calls of create_transaction made directly: <<user, type, amount>>.
DirectCalls ==
  {<<1, DEPOSIT, 5000>>, <<1, WITHDRAWAL, 5000>>, <<2, FEE_DEBIT, 2500>>}

\* The calls of create_fund_lock made directly: <<user, amount, hours to expiry>>
\* (NULL: no expires_at).
LockCalls == {<<1, 2500, NULL>>, <<2, 2500, 12>>}

\* The lock ids of the calls: every lock there can be, so that a call meets
\* active, released and unknown locks.
LockIds == Users \X (1..MaxLocks)

NewAmounts == {1000, 5000}

\* The calls of place_auction_bid: <<bidder, amount, previous lock id>>.
BidCalls == {<<1, 2500, NoLock>>, <<2, 5000, NoLock>>, <<1, 5000, <<1, 1>>>>}

\* The calls of admin_add_balance: <<user, amount>>.
AdminCalls == {<<2, 2500>>}

\* The amount of a partial refund.
PartialRefund == 1000

TickSteps == {12}
FundedBalance == 5000
AdminUser == 1

\* The extension threshold and window passed to should_extend and
\* extend_auction, in minutes (12 hours; the default of both is 10).
ExtensionMinutes == 720

\* The times <<starts_at, ends_at>> of an auction.
AuctionTimes == {<<0, 12>>, <<0, 24>>, <<12, 24>>}

\* The bids an auction has when it is first looked at: none, or the winning
\* bid <<bidder, amount>>.
WinningBids == {<<0, 0>>, <<1, 1000>>, <<2, 5000>>}

\* The price an auction starts at.
StartingPrice == 1000

\* ------------------------------------------------------------------ actions

Tick ==
  \E d \in TickSteps :
    /\ returned = NoCall
    /\ now + d <= MaxTime
    /\ now' = now + d
    /\ UNCHANGED <<wallets, transactions, fund_locks, orders, last, returned, room,
                   sessions, auctions, notifications>>

\* The caller of a call that changed nothing goes on.
Return ==
  /\ returned # NoCall
  /\ returned' = NoCall
  /\ UNCHANGED <<now, wallets, transactions, fund_locks, orders, last, room, sessions,
                 auctions, notifications>>

CreateTransaction ==
  \E c \in DirectCalls :
    Call("create_transaction", c[2], c[1], NoLock, c[3],
         create_transaction(Session, c[1], c[2], c[3], "none", NULL))

AdminAddBalance ==
  \E c \in AdminCalls :
    Call("admin_add_balance", "none", c[1], NoLock, c[2],
         admin_add_balance(Session, c[1], c[2], AdminUser))

CreateFundLock ==
  \E c \in LockCalls :
    Call("create_fund_lock", "none", c[1], <<c[1], Len(fund_locks[c[1]]) + 1>>, c[2],
         create_fund_lock(Session, c[1], c[2], "order", 1,
                          IF c[3] = NULL THEN NULL ELSE now + c[3]))

ReleaseFundLock ==
  \E lock_id \in LockIds :
    Call("release_fund_lock", "none", lock_id[1], lock_id, NULL,
         release_fund_lock(Session, lock_id))

UpdateFundLockAmount ==
  \E lock_id \in LockIds, new_amount \in NewAmounts :
    Call("update_fund_lock_amount", "none", lock_id[1], lock_id, new_amount,
         update_fund_lock_amount(Session, lock_id, new_amount))

ProcessPurchase ==
  \E o \in Orders :
    Call("process_purchase", "none", OrderBuyer(o), <<0, o>>, OrderTotal(o),
         process_purchase(Session, OrderBuyer(o), OrderSeller(o), OrderTotal(o), o, FALSE))

ReleaseSellerHold ==
  \E o \in Orders :
    Call("release_seller_hold", "none", OrderSeller(o), <<0, o>>, NULL,
         release_seller_hold(Session, o, OrderSeller(o)))

ProcessRefund ==
  \E o \in Orders, partial \in BOOLEAN :
    Call("process_refund", "none", OrderBuyer(o), <<0, o>>,
         IF partial THEN PartialRefund ELSE OrderTotal(o),
         process_refund(Session, o, OrderBuyer(o), OrderSeller(o),
                        IF partial THEN PartialRefund ELSE OrderTotal(o), partial))

PlaceAuctionBid ==
  \E c \in BidCalls, a \in Auctions :
    Call("place_auction_bid", "none", c[1], c[3], c[2],
         place_auction_bid(Session, c[1], a, c[2], c[3]))

FinalizeAuction ==
  \E a \in Auctions :
    Call("finalize_auction", "none", 1, <<0, a>>, 2500,
         finalize_auction(Session, a, 1, 2500, 2, FALSE))

ReleaseExpiredHolds ==
  JobCall("release_expired_holds", release_expired_holds(Session))

FinalizeEndedAuctions ==
  JobCall("finalize_ended_auctions", finalize_ended_auctions(Session))

\* The two methods of Auction as their caller is to use them: should_extend
\* with the time of a bid, then extend_auction.  (place_auction_bid does not
\* call them.)
AutoExtend ==
  \E a \in Auctions :
    /\ auctions[a].status # "none"
    /\ Call("extend_auction", "none", NULL, <<0, a>>, ExtensionMinutes,
            IF should_extend(auctions[a], now, ExtensionMinutes)
              THEN extend_auction(Session, a, ExtensionMinutes)
              ELSE [Session EXCEPT !.ret = FALSE])

CreatePurchaseOrder ==
  \E o \in Orders :
    /\ orders[o].status = "none"
    /\ Call("create_purchase_order", "none", NULL, <<0, o>>, NULL, create_purchase_order(Session, o))

MarkOrderPaid ==
  \E o \in Orders :
    /\ orders[o].status # "none"
    /\ Call("mark_order_paid", "none", NULL, <<0, o>>, NULL, mark_order_paid(Session, o))

MarkOrderDelivered ==
  \E o \in Orders :
    /\ orders[o].status # "none"
    /\ Call("mark_order_delivered", "none", NULL, <<0, o>>, NULL, mark_order_delivered(Session, o))

BuyerConfirmOrder ==
  \E o \in Orders :
    /\ orders[o].status # "none"
    /\ Call("buyer_confirm_order", "none", NULL, <<0, o>>, NULL, buyer_confirm_order(Session, o))

ReportDispute ==
  \E o \in Orders :
    /\ orders[o].status # "none"
    /\ Call("report_dispute", "none", NULL, <<0, o>>, NULL, report_dispute(Session, o))

ResolveDispute ==
  \E o \in Orders :
    /\ orders[o].status # "none"
    /\ Call("resolve_dispute", "none", NULL, <<0, o>>, NULL, resolve_dispute(Session, o))

\* ------------------------------------------------------------ specification

Init ==
  /\ now = 0
  /\ wallets = [u \in Users |-> [total_balance |-> 0, locked_balance |-> 0]]
  /\ transactions = [u \in Users |-> <<>>]
  /\ fund_locks = [u \in Users |-> <<>>]
  /\ orders = [o \in Orders |-> NoOrder]
  /\ last = NoCall
  /\ returned = NoCall
  /\ room = MaxTx
  /\ sessions = [p \in Workers |-> Idle]
  /\ auctions = [a \in Auctions |-> NoAuction]
  /\ notifications = {}

\* The wallet ledger: every operation of WalletService, the job of the
\* scheduler, and the orders as far as the job reads them.
Next ==
  \/ Tick
  \/ Return
  \/ CreateTransaction
  \/ AdminAddBalance
  \/ CreateFundLock
  \/ ReleaseFundLock
  \/ UpdateFundLockAmount
  \/ ProcessPurchase
  \/ ReleaseSellerHold
  \/ ProcessRefund
  \/ PlaceAuctionBid
  \/ FinalizeAuction
  \/ ReleaseExpiredHolds
  \/ CreatePurchaseOrder
  \/ MarkOrderDelivered

Spec == Init /\ [][Next]_vars

\* The orders: every status function of app/models/order.py and the job.
NextOrder ==
  \/ Tick
  \/ Return
  \/ CreatePurchaseOrder
  \/ MarkOrderPaid
  \/ MarkOrderDelivered
  \/ BuyerConfirmOrder
  \/ ReportDispute
  \/ ResolveDispute
  \/ ProcessPurchase
  \/ AdminAddBalance
  \/ ReleaseExpiredHolds

SpecOrder == Init /\ [][NextOrder]_vars

\* The orders with the scheduler at work: the job is run again and again
\* (tasks.py adds it with an interval trigger), the clock goes on, and a
\* caller goes on after a call.  The calls of users and admins are made or
\* not, as they choose.
SpecOrderFair ==
  /\ Init
  /\ [][NextOrder]_vars
  /\ WF_vars(Tick)
  /\ WF_vars(Return)
  /\ WF_vars(ReleaseExpiredHolds)

\* The deposit that funds a wallet at the start of SpecHold, as
\* create_transaction records it.
Funding(u) ==
  create_transaction([w |-> [v \in Users |-> [total_balance |-> 0, locked_balance |-> 0]],
                      tx |-> [v \in Users |-> <<>>],
                      fl |-> [v \in Users |-> <<>>],
                      ord |-> [o \in Orders |-> NoOrder],
                      auc |-> [a \in Auctions |-> NoAuction],
                      err |-> "none", ret |-> TRUE],
                     u, DEPOSIT, FundedBalance, "none", NULL)

\* A market whose users have each made a deposit.
InitHold ==
  /\ now = 0
  /\ wallets = [u \in Users |-> Funding(u).w[u]]
  /\ transactions = [u \in Users |-> Funding(u).tx[u]]
  /\ fund_locks = [u \in Users |-> <<>>]
  /\ orders = [o \in Orders |-> NoOrder]
  /\ last = NoCall
  /\ returned = NoCall
  /\ room = MaxTxHold
  /\ sessions = [p \in Workers |-> Idle]
  /\ auctions = [a \in Auctions |-> NoAuction]
  /\ notifications = {}

\* The holds and the locks of a funded market: the purchase, the releases of
\* its hold, the fund locks and the job that sweeps both.
NextHold ==
  \/ Tick
  \/ Return
  \/ CreateFundLock
  \/ ReleaseFundLock
  \/ UpdateFundLockAmount
  \/ ProcessPurchase
  \/ ReleaseSellerHold
  \/ ReleaseExpiredHolds
  \/ CreatePurchaseOrder
  \/ MarkOrderDelivered

SpecHold == InitHold /\ [][NextHold]_vars

\* ------------------------------------------------- calls that run together

\* The calls two workers make at once: <<op, type, user, amount>>.
ConcurrentCalls ==
  {<<"create_fund_lock", "none", 1, 2500>>,
   <<"create_transaction", WITHDRAWAL, 1, 5000>>,
   <<"create_transaction", DEPOSIT, 1, 5000>>,
   <<"create_fund_lock", "none", 2, 5000>>}

\* The call c run in the session s.
Run(s, c) ==
  IF c[1] = "create_fund_lock"
    THEN create_fund_lock(s, c[3], c[4], "order", 1, NULL)
    ELSE create_transaction(s, c[3], c[2], c[4], "none", NULL)

\* WalletService.get_wallet: a worker starts a call and its session reads the
\* wallet row, with a plain SELECT that takes no lock.
Begin(p) ==
  \E c \in ConcurrentCalls :
    /\ returned = NoCall
    /\ sessions[p] = Idle
    /\ sessions' = [sessions EXCEPT ![p] = [call |-> c, wallet |-> wallets[c[3]]]]
    /\ UNCHANGED <<now, wallets, transactions, fund_locks, orders, last, returned, room,
                   auctions, notifications>>

\* The row an UPDATE of the session leaves: the ORM writes the columns the
\* session changed, with the values it computed from the row it read, and
\* leaves the others as committed.
Updated(row, read, computed) ==
  [total_balance |-> IF computed.total_balance # read.total_balance
                       THEN computed.total_balance ELSE row.total_balance,
   locked_balance |-> IF computed.locked_balance # read.locked_balance
                        THEN computed.locked_balance ELSE row.locked_balance]

\* The rest of the call: create_transaction computes the balances from the
\* row read, and the flush and the commit write them.
Finish(p) ==
  LET c == sessions[p].call
      u == c[3]
      s == Run([Session EXCEPT !.w[u] = sessions[p].wallet], c)
      row == Updated(wallets[u], sessions[p].wallet, s.w[u])
      s1 == IF s.err = "none" /\ ~WalletConstraints(row)
              THEN Raise(s, "IntegrityError")
              ELSE [s EXCEPT !.w[u] = row]
  IN /\ sessions[p] # Idle
     /\ Record([op |-> c[1], type |-> c[2], user |-> u,
                ref |-> IF c[1] = "create_fund_lock"
                          THEN <<u, Len(fund_locks[u]) + 1>> ELSE NoLock,
                amount |-> c[4], res |-> Result(s1)],
               get_session(s1))
     /\ sessions' = [sessions EXCEPT ![p] = Idle]
     /\ UNCHANGED notifications

NextConc ==
  \/ Return
  \/ \E p \in Workers : Begin(p)
  \/ \E p \in Workers : Finish(p)

\* Two workers of a funded market, each making one call at a time.
SpecConc == InitHold /\ [][NextConc]_vars

\* ----------------------------------------------------------- the auctions

\* The session after the deposits of a funded market and the winning bid.
AuctionFunding(bid) ==
  LET s0 == [w |-> [v \in Users |-> Funding(v).w[v]],
             tx |-> [v \in Users |-> Funding(v).tx[v]],
             fl |-> [v \in Users |-> <<>>],
             ord |-> [o \in Orders |-> NoOrder],
             auc |-> [a \in Auctions |-> NoAuction],
             err |-> "none", ret |-> TRUE]
  IN IF bid[1] = 0 THEN s0
     ELSE create_fund_lock(s0, bid[1], bid[2], "auction", 1, BID_LOCK_HOURS)

\* A funded market with an auction that is active by its status, sold by the
\* user who is not its winner, with no bid or with its winning bid locked.
InitAuction ==
  \E times \in AuctionTimes, bid \in WinningBids :
    /\ now = 0
    /\ wallets = AuctionFunding(bid).w
    /\ transactions = AuctionFunding(bid).tx
    /\ fund_locks = AuctionFunding(bid).fl
    /\ orders = [o \in Orders |-> NoOrder]
    /\ last = NoCall
    /\ returned = NoCall
    /\ room = MaxTxAuction
    /\ sessions = [p \in Workers |-> Idle]
    /\ auctions = [a \in Auctions |->
                     [status |-> ACTIVE,
                      seller_id |-> IF bid[1] = 2 THEN 1 ELSE 2,
                      starting_price |-> StartingPrice,
                      current_price |-> IF bid[1] = 0 THEN StartingPrice ELSE bid[2],
                      starts_at |-> times[1], ends_at |-> times[2],
                      extended_until |-> NULL,
                      winner_id |-> IF bid[1] = 0 THEN NULL ELSE bid[1],
                      finalized_at |-> NULL]]
    /\ notifications = {}

NextAuction ==
  \/ Tick
  \/ Return
  \/ PlaceAuctionBid
  \/ AutoExtend
  \/ FinalizeEndedAuctions
  \/ ReleaseExpiredHolds

SpecAuction == InitAuction /\ [][NextAuction]_vars

\* ------------------------------------------------------ the long auctions

\* The hours <<starts_at, ends_at>> of the auctions that last a day or more.
LongAuctionTimes == {<<0, 24>>, <<0, 96>>}

\* A funded market with an active auction of a day or of four days, of a
\* duration the settings allow, whose winning bid was locked at its start.
InitLongAuction ==
  \E times \in LongAuctionTimes :
    /\ times[2] - times[1] <= MAX_AUCTION_DURATION_HOURS
    /\ now = 0
    /\ wallets = AuctionFunding(<<1, StartingPrice>>).w
    /\ transactions = AuctionFunding(<<1, StartingPrice>>).tx
    /\ fund_locks = AuctionFunding(<<1, StartingPrice>>).fl
    /\ orders = [o \in Orders |-> NoOrder]
    /\ last = NoCall
    /\ returned = NoCall
    /\ room = MaxTxAuction
    /\ sessions = [p \in Workers |-> Idle]
    /\ auctions = [a \in Auctions |->
                     [status |-> ACTIVE, seller_id |-> 2,
                      starting_price |-> StartingPrice, current_price |-> StartingPrice,
                      starts_at |-> times[1], ends_at |-> times[2],
                      extended_until |-> NULL, winner_id |-> 1, finalized_at |-> NULL]]
    /\ notifications = {}

\* A day passes.
TickDay ==
  /\ returned = NoCall
  /\ now + 24 <= MaxAuctionTime
  /\ now' = now + 24
  /\ UNCHANGED <<wallets, transactions, fund_locks, orders, last, returned, room,
                 sessions, auctions, notifications>>

NextLongAuction ==
  \/ TickDay
  \/ Return
  \/ PlaceAuctionBid
  \/ FinalizeEndedAuctions
  \/ ReleaseExpiredHolds

\* The auctions over days, with the two jobs of the scheduler.
SpecLongAuction == InitLongAuction /\ [][NextLongAuction]_vars

\* The states in which a run of finalize_ended_auctions can be taken: no
\* caller is waiting and the rows it writes fit the bounds.
FinalizeEndedAuctionsEnabled ==
  LET db == Rows(finalize_ended_auctions(Session))
  IN /\ returned = NoCall
     /\ RowCount(db.tx) - RowCount(transactions) <= room
     /\ \A u \in Users : Len(db.fl[u]) <= MaxLocks

\* The auctions with the scheduler at work: the clock goes on, a caller goes
\* on after a call, release_expired_holds is run again and again, and the
\* interval trigger of finalize_ended_auctions fires whatever the bidders do:
\* SF_vars(FinalizeEndedAuctions), written with the states in which the run
\* can be taken.  Bids are placed or not, as the bidders choose.
SpecAuctionFair ==
  /\ InitAuction
  /\ [][NextAuction]_vars
  /\ WF_vars(Tick)
  /\ WF_vars(Return)
  /\ WF_vars(ReleaseExpiredHolds)
  /\ ( <>[]~FinalizeEndedAuctionsEnabled \/ []<><<FinalizeEndedAuctions>>_vars )

\* -------------------------------------------- two instances of the job

\* An instance of release_expired_holds starts (the scheduler runs up to
\* max_instances = 3 of a job at once): its session reads the orders ready
\* for release, their hold transactions and the seller's wallet, with plain
\* SELECTs that take no lock.
BeginJob(p) ==
  /\ returned = NoCall
  /\ sessions[p] = Idle
  /\ get_orders_ready_for_release(Session) # {}
  /\ sessions' = [sessions EXCEPT ![p] = [call |-> <<"release_expired_holds">>,
                                          rows |-> Database]]
  /\ UNCHANGED <<now, wallets, transactions, fund_locks, orders, last, returned, room,
                 auctions, notifications>>

\* The rows the commits of a session leave, which read the rows read and
\* computed the rows s from them: the transactions it added are inserted, and
\* of the wallets and orders it changed the changed columns are written.
Committed(read, s) ==
  [w |-> [u \in Users |-> Updated(wallets[u], read.w[u], s.w[u])],
   tx |-> [u \in Users |->
             transactions[u] \o SubSeq(s.tx[u], Len(read.tx[u]) + 1, Len(s.tx[u]))],
   fl |-> [u \in Users |->
             IF s.fl[u] = read.fl[u] THEN fund_locks[u]
             ELSE [i \in DOMAIN fund_locks[u] |->
                     IF i \in DOMAIN read.fl[u] /\ s.fl[u][i] # read.fl[u][i]
                       THEN s.fl[u][i] ELSE fund_locks[u][i]]],
   auc |-> [a \in Auctions |->
              IF s.auc[a] # read.auc[a] THEN s.auc[a] ELSE auctions[a]],
   ord |-> [o \in Orders |->
              IF s.ord[o].status # read.ord[o].status
                THEN [orders[o] EXCEPT !.status = s.ord[o].status]
                ELSE orders[o]]]

\* The rest of the instance: the release of each order read, computed from
\* the rows read, and its commit.
FinishJob(p) ==
  LET read == sessions[p].rows
      s == ReleaseOrders([Session EXCEPT !.w = read.w, !.tx = read.tx, !.ord = read.ord],
                         OrderList(get_orders_ready_for_release(
                                     [Session EXCEPT !.ord = read.ord])))
      db == Committed(read, s)
      failed == \E u \in Users : ~WalletConstraints(db.w[u])
  IN /\ sessions[p] # Idle
     /\ sessions[p].call = <<"release_expired_holds">>
     /\ Record([op |-> "release_expired_holds", type |-> "none", user |-> NULL,
                ref |-> NoLock, amount |-> NULL,
                res |-> IF failed THEN "IntegrityError"
                        ELSE IF s.err # "none" THEN s.err ELSE "ok"],
               IF failed THEN Database ELSE db)
     /\ notifications' = notifications \cup
                           (IF failed THEN {} ELSE ReleaseNotifications(db))
     /\ sessions' = [sessions EXCEPT ![p] = Idle]

NextJobs ==
  \/ Tick
  \/ Return
  \/ CreatePurchaseOrder
  \/ ProcessPurchase
  \/ MarkOrderDelivered
  \/ \E p \in Workers : BeginJob(p)
  \/ \E p \in Workers : FinishJob(p)

\* A funded market whose scheduler runs two instances of the job.
SpecJobs == InitHold /\ [][NextJobs]_vars

\* ------------------------------------- the finalization, step by step

\* finalize_ended_auctions up to the notifications of _finalize_auction: the
\* session has the auction finalized and the winner charged, nothing is
\* committed, and _notify_auction_winner sends its message.
BeginFinalize(p) ==
  LET s == finalize_ended_auctions(Session)
  IN /\ returned = NoCall
     /\ sessions[p] = Idle
     /\ ended_auctions(Session) # {}
     /\ sessions' = [sessions EXCEPT ![p] = [call |-> <<"finalize_ended_auctions">>,
                                             rows |-> Database, session |-> s]]
     /\ notifications' = notifications \cup WinnerNotifications(Rows(s))
     /\ UNCHANGED <<now, wallets, transactions, fund_locks, orders, last, returned, room,
                    auctions>>

\* await session.commit() of _finalize_auction.
FinishFinalize(p) ==
  LET s == sessions[p].session
      db == Committed(sessions[p].rows, s)
      failed == \E u \in Users : ~WalletConstraints(db.w[u])
  IN /\ sessions[p] # Idle
     /\ sessions[p].call = <<"finalize_ended_auctions">>
     /\ Record([op |-> "finalize_ended_auctions", type |-> "none", user |-> NULL,
                ref |-> NoLock, amount |-> NULL,
                res |-> IF failed THEN "IntegrityError"
                        ELSE IF s.err # "none" THEN s.err ELSE "ok"],
               IF failed THEN Database ELSE db)
     /\ sessions' = [sessions EXCEPT ![p] = Idle]
     /\ UNCHANGED notifications

\* _finalize_auction when the notification raises an exception that is not a
\* TelegramError (_send_telegram_notification catches no other; it opens a
\* database session of its own to look the chat id up): the except branch
\* logs it and rolls the session back.
FinalizeNotifyFails ==
  LET s == finalize_ended_auctions(Session)
  IN /\ WinnerNotifications(Rows(s)) # {}
     /\ Record([op |-> "finalize_ended_auctions", type |-> "none", user |-> NULL,
                ref |-> NoLock, amount |-> NULL, res |-> "NotificationError"],
               Database)
     /\ UNCHANGED <<sessions, notifications>>

NextNotify ==
  \/ Tick
  \/ Return
  \/ CreatePurchaseOrder
  \/ ProcessPurchase
  \/ MarkOrderDelivered
  \/ ReleaseExpiredHolds
  \/ \E p \in Workers : BeginFinalize(p)
  \/ \E p \in Workers : FinishFinalize(p)
  \/ FinalizeNotifyFails

\* The two jobs that notify, with the finalization taken in its steps.
SpecNotify == InitAuction /\ [][NextNotify]_vars

\* ------------------------------------------------------ a purchase by hand

\* A buyer who holds 100.00 buys an item of 50.00 from a seller who is not
\* verified; the seller has deposited nothing, or 50.00.
ExampleBalance == 1000000
ExamplePrice == 500000
ExampleSellerBalances == {0, 500000}

\* The session after the deposits of the example.
ExampleFunding(seller_balance) ==
  LET s0 == [w |-> [v \in Users |-> [total_balance |-> 0, locked_balance |-> 0]],
             tx |-> [v \in Users |-> <<>>],
             fl |-> [v \in Users |-> <<>>],
             ord |-> [o \in Orders |-> NoOrder],
             auc |-> [a \in Auctions |-> NoAuction],
             err |-> "none", ret |-> TRUE]
      s1 == create_transaction(s0, 1, DEPOSIT, ExampleBalance, "none", NULL)
  IN IF seller_balance = 0 THEN s1
     ELSE create_transaction(s1, 2, DEPOSIT, seller_balance, "none", NULL)

InitExample ==
  \E b \in ExampleSellerBalances :
    /\ now = 0
    /\ wallets = ExampleFunding(b).w
    /\ transactions = ExampleFunding(b).tx
    /\ fund_locks = [u \in Users |-> <<>>]
    /\ orders = [o \in Orders |-> NoOrder]
    /\ last = NoCall
    /\ returned = NoCall
    /\ room = MaxTxHold
    /\ sessions = [p \in Workers |-> Idle]
    /\ auctions = [a \in Auctions |-> NoAuction]
    /\ notifications = {}

\* WalletService.process_purchase for the item of the example.
ExamplePurchase ==
  \E o \in Orders :
    Call("process_purchase", "none", OrderBuyer(o), <<0, o>>, ExamplePrice,
         process_purchase(Session, OrderBuyer(o), OrderSeller(o), ExamplePrice, o, FALSE))

NextExample ==
  \/ Tick
  \/ Return
  \/ CreatePurchaseOrder
  \/ ExamplePurchase
  \/ MarkOrderDelivered
  \/ ReleaseSellerHold
  \/ ReleaseExpiredHolds

SpecExample == InitExample /\ [][NextExample]_vars

\* The order of a funded market from its purchase to its settlement: the
\* status functions, the purchase, the refund, the release of the hold and
\* the job.
NextSettle ==
  \/ Tick
  \/ Return
  \/ CreatePurchaseOrder
  \/ ProcessPurchase
  \/ MarkOrderPaid
  \/ MarkOrderDelivered
  \/ BuyerConfirmOrder
  \/ ReportDispute
  \/ ResolveDispute
  \/ ProcessRefund
  \/ ReleaseSellerHold
  \/ ReleaseExpiredHolds

SpecSettle == InitHold /\ [][NextSettle]_vars

\* ------------------------------------------------------------ the claims

\* The call a step makes (NoCall: the step is no call).
Made ==
  IF returned = NoCall /\ returned' # NoCall THEN returned'
  ELSE IF Database' # Database THEN last'
  ELSE NoCall

\* C1: every wallet keeps 0 <= locked_balance <= total_balance, in every state
\* the ledger operations reach.
C1_LockedWithinTotal ==
  \A u \in Users :
    /\ 0 <= wallets[u].locked_balance
    /\ wallets[u].locked_balance <= wallets[u].total_balance

\* C1 witness: a purchase whose hold would have locked more than the seller's
\* total was stopped, and a wallet sits at the edge locked = total > 0.
C1_Witness ==
  \/ /\ returned.op = "process_purchase"
     /\ returned.res = "IntegrityError"
  \/ \E u \in Users :
       /\ wallets[u].locked_balance = wallets[u].total_balance
       /\ wallets[u].locked_balance > 0

\* The balances a wallet's transactions give when folded from zero in creation
\* order, each applied with the effect of its type and its recorded amount.
RECURSIVE Replay(_)
Replay(log) ==
  IF log = <<>> THEN [total_balance |-> 0, locked_balance |-> 0]
  ELSE LET n == Len(log)
       IN NewBalances(Replay(SubSeq(log, 1, n - 1)), log[n].type, log[n].amount)

\* C2: folding a wallet's transactions from zero reproduces its balances
\* exactly, and no recorded transaction is ever changed or removed.
C2_ReplayExact ==
  \A u \in Users : Replay(transactions[u]) = wallets[u]

\* C2, the second half: the log of a wallet only grows at its end.
C2_LogAppendOnly ==
  [][\A u \in Users :
       /\ Len(transactions'[u]) >= Len(transactions[u])
       /\ SubSeq(transactions'[u], 1, Len(transactions[u])) = transactions[u]]_vars

\* C3: a debit, a lock or a create_lock (and the debit of a purchase) for more
\* than the available balance ends with InsufficientFundsError and changes no
\* row; and a fund lock is created only in the step that appends its lock
\* transaction and raises the locked balance by its amount.
C3_InsufficientFundsNoChange ==
  [][LET c == Made
         Over == \/ /\ c.op = "create_transaction"
                    /\ c.type \in DebitTypes \cup {LOCK}
                    /\ c.amount > available_balance(wallets[c.user])
                 \/ /\ c.op \in {"create_fund_lock", "place_auction_bid"}
                    /\ c.op = "place_auction_bid" => c.ref = NoLock
                    /\ c.amount > available_balance(wallets[c.user])
                 \/ /\ c.op = "process_purchase"
                    /\ c.amount + calculate_fees(c.amount, FALSE).buyer_fee
                         > available_balance(wallets[c.user])
     IN /\ Over => c.res = "InsufficientFundsError" /\ Database' = Database
        /\ c.res = "InsufficientFundsError" => Database' = Database
        /\ \A u \in Users :
             Len(fund_locks'[u]) > Len(fund_locks[u]) =>
               LET l == fund_locks'[u][Len(fund_locks'[u])]
                   tx == transactions'[u][Len(transactions'[u])]
               IN /\ Len(fund_locks'[u]) = Len(fund_locks[u]) + 1
                  /\ Len(transactions'[u]) > Len(transactions[u])
                  /\ tx.type = LOCK
                  /\ tx.amount = l.amount
                  /\ tx.locked_after = tx.locked_before + l.amount
                  /\ wallets'[u].locked_balance = tx.locked_after]_vars

\* C3 witness: a lock for more than the available balance has just been
\* refused, in a wallet that holds funds and a lock.
C3_Witness ==
  /\ returned.op = "create_fund_lock"
  /\ returned.res = "InsufficientFundsError"
  /\ wallets[returned.user].locked_balance > 0
  /\ returned.amount > available_balance(wallets[returned.user])

\* C4: a create_fund_lock leaves the total balance as it was and raises the
\* locked balance by the amount; the release of that lock, called next, leaves
\* the total balance as it was and returns the locked balance to its value
\* before the lock.
C4_LockSymmetry ==
  [][LET c == Made
     IN /\ c.op = "create_fund_lock" /\ c.res = "ok" =>
             /\ wallets'[c.user].total_balance = wallets[c.user].total_balance
             /\ wallets'[c.user].locked_balance
                  = wallets[c.user].locked_balance + c.amount
        /\ (/\ c.op = "release_fund_lock" /\ c.res = "ok"
            /\ last.op = "create_fund_lock" /\ last.ref = c.ref) =>
             LET tx == transactions[c.user][Len(transactions[c.user])]
             IN /\ tx.type = LOCK
                /\ wallets'[c.user].locked_balance = tx.locked_before
                /\ wallets'[c.user].total_balance = tx.balance_before
                /\ wallets[c.user].total_balance = tx.balance_before]_vars

\* C4 witness: a lock has been created and released by the next call, in a
\* wallet that held another lock already.
C4_Witness ==
  /\ last.op = "release_fund_lock"
  /\ last.res = "ok"
  /\ Len(transactions[last.user]) >= 2
  /\ LET n == Len(transactions[last.user])
     IN /\ transactions[last.user][n].type = RELEASE
        /\ transactions[last.user][n - 1].type = LOCK
        /\ transactions[last.user][n - 1].locked_before > 0
        /\ transactions[last.user][n].locked_after
             = transactions[last.user][n - 1].locked_before

\* C5: release_fund_lock on a lock that is released already, or that does not
\* exist, returns False and changes no row; a release that succeeds leaves
\* the lock inactive, so that a second call is such a call.
C5_ReleaseIdempotent ==
  [][LET c == Made
         active == /\ c.ref[2] \in DOMAIN fund_locks[c.ref[1]]
                   /\ fund_locks[c.ref[1]][c.ref[2]].is_active
     IN c.op = "release_fund_lock" =>
          /\ ~active => c.res = "false" /\ Database' = Database
          /\ c.res = "false" => ~active
          /\ c.res = "ok" =>
               /\ active
               /\ ~fund_locks'[c.ref[1]][c.ref[2]].is_active
               /\ Len(transactions'[c.user]) = Len(transactions[c.user]) + 1]_vars

\* C5 witness: the second release of a lock that the call before it released.
C5_Witness ==
  /\ returned.op = "release_fund_lock"
  /\ returned.res = "false"
  /\ last.op = "release_fund_lock"
  /\ last.ref = returned.ref
  /\ ~fund_locks[returned.ref[1]][returned.ref[2]].is_active

\* The transactions a step appends to the log of a wallet.
Appended(u) ==
  {transactions'[u][i] : i \in (Len(transactions[u]) + 1)..Len(transactions'[u])}

C8_UpdateByDelta ==
  [][LET c == Made
         active == /\ c.ref[2] \in DOMAIN fund_locks[c.ref[1]]
                   /\ fund_locks[c.ref[1]][c.ref[2]].is_active
         old == fund_locks[c.ref[1]][c.ref[2]].amount
         w == wallets[c.user]
         delta == c.amount - old
     IN c.op = "update_fund_lock_amount" /\ active =>
          IF delta > available_balance(w)
            THEN c.res = "InsufficientFundsError" /\ Database' = Database
            ELSE /\ c.res = "ok"
                 /\ wallets'[c.user].locked_balance = w.locked_balance + delta
                 /\ wallets'[c.user].total_balance = w.total_balance
                 /\ fund_locks'[c.ref[1]][c.ref[2]].amount = c.amount
                 /\ fund_locks'[c.ref[1]][c.ref[2]].is_active
                 /\ Appended(c.user) =
                      IF delta = 0 THEN {}
                      ELSE {tx \in Appended(c.user) :
                              /\ tx.type = IF delta > 0 THEN LOCK ELSE RELEASE
                              /\ tx.amount = IF delta > 0 THEN delta ELSE 0 - delta}
                 /\ Len(transactions'[c.user]) - Len(transactions[c.user])
                      = IF delta = 0 THEN 0 ELSE 1]_vars

\* C9: a run of the job release_expired_holds leaves no lock active whose
\* expires_at had passed when it ran, each released through release_fund_lock
\* (the locked balance reduced by the amounts of the locks), and leaves the
\* locks with no expires_at, or with one that has not passed, as they were.
C9_SweepReleasesExpired ==
  [][LET c == Made
         expired == get_expired_fund_locks(Session)
     IN c.op = "release_expired_holds" =>
          \A u \in Users : \A i \in DOMAIN fund_locks[u] :
            IF <<u, i>> \in expired
              THEN /\ ~fund_locks'[u][i].is_active
                   /\ fund_locks'[u][i].released_at = now
              ELSE fund_locks'[u][i] = fund_locks[u][i]]_vars

\* C6: the calls against a wallet are linearizable: each call that commits
\* has the outcome it has when run alone on the rows committed before it (it
\* observes the balance the call before it committed), so that of two locks or
\* debits that together exceed the available balance one fails, and no update
\* of a balance is lost.
C6_Linearizable ==
  [][\A p \in Workers :
       sessions[p] # Idle /\ sessions'[p] = Idle =>
         LET s == Run(Session, sessions[p].call)
         IN /\ Database' = get_session(s)
            /\ Made.res = Result(s)]_vars

\* The edges of the order status: the creation, which starts an order in
\* pending, the way to delivery, the ends of a delivered order, the dispute,
\* and the cancellation of an order not yet delivered.
StatusEdges ==
  {<<"none", PENDING>>, <<PENDING, PAID>>, <<PAID, DELIVERED>>,
   <<DELIVERED, IN_DISPUTE>>, <<DELIVERED, RELEASED>>,
   <<IN_DISPUTE, RESOLVED>>, <<RESOLVED, RELEASED>>, <<RESOLVED, REFUNDED>>,
   <<PENDING, CANCELLED>>, <<PAID, CANCELLED>>}

\* C10: the status of an order changes only along the edges of StatusEdges;
\* no edge leaves released, refunded or cancelled, so no operation changes
\* the status of an order that has reached one of them.
C10_StatusEdgesOnly ==
  [][\A o \in Orders :
       orders'[o].status # orders[o].status =>
         <<orders[o].status, orders'[o].status>> \in StatusEdges]_vars

\* C11: process_purchase debits the buyer total_amount + buyer_fee in one
\* purchase debit and gives the seller a hold lock of the net amount; when the
\* buyer cannot cover the debit it ends with InsufficientFundsError and the
\* seller's wallet and log are as they were.
C11_PurchaseDebitAndHold ==
  [][LET c == Made
         o == c.ref[2]
         buyer == c.user
         seller == OrderSeller(o)
         fees == calculate_fees(c.amount, FALSE)
         buyer_total == c.amount + fees.buyer_fee
         seller_net == c.amount - fees.seller_fee
     IN c.op = "process_purchase" =>
          IF buyer_total > available_balance(wallets[buyer])
            THEN /\ c.res = "InsufficientFundsError"
                 /\ wallets'[seller] = wallets[seller]
                 /\ transactions'[seller] = transactions[seller]
            ELSE /\ c.res = "ok"
                 /\ wallets'[buyer].total_balance
                      = wallets[buyer].total_balance - buyer_total
                 /\ wallets'[seller].locked_balance
                      = wallets[seller].locked_balance + seller_net
                 /\ wallets'[seller].total_balance = wallets[seller].total_balance
                 /\ \E tx \in Appended(buyer) :
                      Appended(buyer) = {tx} /\ tx.type = PURCHASE_DEBIT
                 /\ \E tx \in Appended(seller) :
                      Appended(seller) = {tx} /\ tx.type = HOLD_LOCK]_vars

\* C12: a buyer holding 100.00 who buys an item of 50.00 from an unverified
\* seller is debited 51.00 and keeps 49.00 available, and the seller gets a
\* hold of 47.50; the first release of that hold adds 47.50 to the seller's
\* total and takes 47.50 from the seller's locked balance.
C12_WorkedExample ==
  [][LET c == Made
         o == c.ref[2]
         seller == OrderSeller(o)
     IN /\ ( /\ c.op = "process_purchase"
             /\ c.amount = ExamplePrice
             /\ wallets[c.user] = [total_balance |-> ExampleBalance, locked_balance |-> 0] )
            => /\ c.res = "ok"
               /\ wallets'[c.user].total_balance = ExampleBalance - 510000
               /\ wallets'[c.user].total_balance - wallets'[c.user].locked_balance = 490000
               /\ wallets'[seller].locked_balance = wallets[seller].locked_balance + 475000
               /\ wallets'[seller].total_balance = wallets[seller].total_balance
        /\ ( /\ c.op = "release_seller_hold"
             /\ \E i \in 1..Len(transactions[seller]) :
                  /\ transactions[seller][i].type = HOLD_LOCK
                  /\ transactions[seller][i].amount = 475000
             /\ \A i \in 1..Len(transactions[seller]) :
                  transactions[seller][i].type # HOLD_RELEASE )
            => /\ c.res = "ok"
               /\ wallets'[seller].total_balance = wallets[seller].total_balance + 475000
               /\ wallets'[seller].locked_balance = wallets[seller].locked_balance - 475000]_vars

\* C13: dispute_window_until and seller_hold_until are set together, once, by
\* the step that delivers the order: they are unset until then, and no later
\* step (a second mark_order_delivered included) changes either of them.
C13_TimersSetOnce ==
  [][\A o \in Orders :
       LET before == orders[o]
           after == orders'[o]
       IN /\ (after.dispute_window_until = NULL) <=> (after.seller_hold_until = NULL)
          /\ ( before.dispute_window_until = NULL /\ after.dispute_window_until # NULL )
               => Made.op = "mark_order_delivered" /\ after.status = DELIVERED
          /\ before.dispute_window_until # NULL
               => after.dispute_window_until = before.dispute_window_until
          /\ before.seller_hold_until # NULL
               => after.seller_hold_until = before.seller_hold_until]_vars

\* C14: the timers are counted from the payment: mark_order_delivered on an
\* order that was paid at purchased_at = T leaves dispute_window_until = T + 12h
\* and seller_hold_until = T + 24h, and report_dispute on the delivered order
\* succeeds before T + 12h and fails from T + 12h on.
C14_TimersFromPurchase ==
  [][\A o \in Orders :
       LET before == orders[o]
           after == orders'[o]
       IN /\ ( Made.op = "mark_order_delivered" /\ before.purchased_at # NULL )
               => /\ after.dispute_window_until = before.purchased_at + DISPUTE_WINDOW_HOURS
                  /\ after.seller_hold_until = before.purchased_at + SELLER_HOLD_HOURS
          /\ ( /\ Made.op = "report_dispute"
               /\ before.status = DELIVERED
               /\ before.reported_at = NULL
               /\ before.purchased_at # NULL )
               => ( Made.res = "ok" <=> now < before.purchased_at + DISPUTE_WINDOW_HOURS )]_vars

\* C15: report_dispute succeeds exactly when the order is delivered, the time
\* is before dispute_window_until and no report was made before; it then
\* leaves the order in_dispute, and otherwise it raises and changes nothing.
C15_ReportDisputeGuard ==
  [][LET c == Made
         o == c.ref[2]
         before == orders[o]
         allowed == /\ before.status = DELIVERED
                    /\ before.dispute_window_until # NULL
                    /\ now < before.dispute_window_until
                    /\ before.reported_at = NULL
     IN c.op = "report_dispute" =>
          IF allowed
            THEN /\ c.res = "ok"
                 /\ orders'[o].status = IN_DISPUTE
                 /\ orders'[o].reported_at = now
            ELSE /\ c.res = "ValueError"
                 /\ orders' = orders
                 /\ Database' = Database]_vars

\* A report is refused on an order that an earlier report had put in dispute.
C15_Witness ==
  /\ returned.op = "report_dispute"
  /\ returned.res = "ValueError"
  /\ \E o \in Orders : returned.ref = <<0, o>> /\ orders[o].reported_at # NULL

\* C16: the job never touches an order that is in dispute: the order keeps
\* its status and every other column, and no transaction for the order is
\* added to the seller's wallet, also when seller_hold_until has passed.
C16_SweepSkipsDisputed ==
  [][Made.op = "release_expired_holds" =>
       \A o \in Orders :
         orders[o].status = IN_DISPUTE =>
           /\ orders'[o] = orders[o]
           /\ wallets'[OrderSeller(o)] = wallets[OrderSeller(o)]
           /\ \A tx \in Appended(OrderSeller(o)) :
                ~(tx.reference_type = "order" /\ tx.reference_id = o)]_vars

\* The job has run over a disputed order whose hold is in place and whose
\* hold time has passed.
C16_Witness ==
  /\ returned.op = "release_expired_holds"
  /\ \E o \in Orders :
       /\ orders[o].status = IN_DISPUTE
       /\ orders[o].seller_hold_until # NULL
       /\ orders[o].seller_hold_until <= now
       /\ \E i \in DOMAIN transactions[OrderSeller(o)] :
            /\ transactions[OrderSeller(o)][i].type = HOLD_LOCK
            /\ transactions[OrderSeller(o)][i].reference_id = o
       /\ \A i \in DOMAIN transactions[OrderSeller(o)] :
            transactions[OrderSeller(o)][i].type \notin {HOLD_RELEASE, RELEASE}

\* C17: a run of the job, however late, releases every order that is
\* delivered, past its seller_hold_until, not confirmed by the buyer and has
\* its hold on the seller's wallet: the order becomes released and the run
\* adds one hold release of the held amount for it.
C17_SweepReleasesDue ==
  [][Made.op = "release_expired_holds" =>
       \A o \in Orders :
         LET seller == OrderSeller(o)
             holds == {i \in DOMAIN transactions[seller] :
                         /\ transactions[seller][i].type = HOLD_LOCK
                         /\ transactions[seller][i].reference_type = "order"
                         /\ transactions[seller][i].reference_id = o}
         IN ( /\ orders[o].status = DELIVERED
              /\ orders[o].seller_hold_until # NULL
              /\ orders[o].seller_hold_until <= now
              /\ orders[o].buyer_confirmed_at = NULL
              /\ holds # {} )
            => /\ orders'[o].status = RELEASED
               /\ \E tx \in Appended(seller) :
                    /\ tx.type = HOLD_RELEASE
                    /\ tx.reference_id = o
                    /\ \A i \in holds : transactions[seller][i].amount = tx.amount
                    /\ \A other \in Appended(seller) :
                         other.type = HOLD_RELEASE => other = tx]_vars

\* C18: buyer_confirm_order acts only on a delivered order: it then releases
\* the seller's hold at once (a hold release on the seller's wallet) and
\* leaves the order released; on an order in any other status it changes
\* nothing.
C18_ConfirmReleasesHold ==
  [][LET c == Made
         o == c.ref[2]
         seller == OrderSeller(o)
     IN c.op = "buyer_confirm_order" =>
          IF orders[o].status = DELIVERED
            THEN /\ orders'[o].status = RELEASED
                 /\ HoldTransactions(Session, seller, o) # {}
                      => \E tx \in Appended(seller) :
                           tx.type = HOLD_RELEASE /\ tx.reference_id = o
            ELSE Database' = Database]_vars

\* C19: resolved is a status an order passes through: an order that
\* resolve_dispute has left resolved goes on to the terminal status of the
\* outcome (released or refunded), so no order stays resolved for ever.
C19_ResolvedPassesOn ==
  \A o \in Orders :
    (orders[o].status = RESOLVED) ~> (orders[o].status \in {RELEASED, REFUNDED, CANCELLED})

C21_PartialRefundReducesHold ==
  [][LET c == Made
         o == c.ref[2]
         buyer == c.user
         seller == OrderSeller(o)
         holds == {i \in DOMAIN transactions[seller] :
                     /\ transactions[seller][i].type = HOLD_LOCK
                     /\ transactions[seller][i].reference_type = "order"
                     /\ transactions[seller][i].reference_id = o}
         discharged == \E i \in DOMAIN transactions[seller] :
                         /\ transactions[seller][i].type \in {HOLD_RELEASE, RELEASE}
                         /\ transactions[seller][i].reference_type = "order"
                         /\ transactions[seller][i].reference_id = o
     IN ( /\ c.op = "process_refund"
          /\ c.amount = PartialRefund
          /\ Cardinality(holds) = 1
          /\ ~discharged )
        => /\ c.res = "ok"
           /\ wallets'[buyer].total_balance = wallets[buyer].total_balance + PartialRefund
           /\ wallets'[seller].locked_balance < wallets[seller].locked_balance]_vars

\* C22: of buyer_confirm_order and the job on the same delivered order, the
\* one that takes the order out of delivered releases the seller's hold, once,
\* and leaves the order released; the other, finding the order released,
\* changes nothing.
C22_ConfirmOrSweepOnce ==
  [][\A o \in Orders :
       LET c == Made
           seller == OrderSeller(o)
           acts == \/ c.op = "release_expired_holds"
                   \/ c.op = "buyer_confirm_order" /\ c.ref = <<0, o>>
           holds == {i \in DOMAIN transactions[seller] :
                       /\ transactions[seller][i].type = HOLD_LOCK
                       /\ transactions[seller][i].reference_type = "order"
                       /\ transactions[seller][i].reference_id = o}
           discharged == \E i \in DOMAIN transactions[seller] :
                           /\ transactions[seller][i].type \in {HOLD_RELEASE, RELEASE}
                           /\ transactions[seller][i].reference_type = "order"
                           /\ transactions[seller][i].reference_id = o
       IN /\ ( /\ acts
               /\ orders[o].status = DELIVERED
               /\ orders'[o].status # DELIVERED
               /\ Cardinality(holds) = 1
               /\ ~discharged )
             => /\ orders'[o].status = RELEASED
                /\ \E tx \in Appended(seller) :
                     /\ tx.type = HOLD_RELEASE
                     /\ tx.reference_id = o
                     /\ \A other \in Appended(seller) : other = tx
          /\ ( acts /\ orders[o].status = RELEASED )
             => /\ orders'[o] = orders[o]
                /\ wallets' = wallets
                /\ transactions' = transactions]_vars

\* C23: of two instances of the job that run at once over the same due order,
\* one releases the hold and the other changes nothing or is rejected: an
\* instance records a hold release for an order only while the order is still
\* delivered in the database, so one hold release is recorded and the seller
\* is credited once.
C23_OverlappingJobsReleaseOnce ==
  [][Made.op = "release_expired_holds" =>
       \A u \in Users : \A tx \in Appended(u) :
         ( tx.type = HOLD_RELEASE /\ tx.reference_id \in Orders )
           => orders[tx.reference_id].status = DELIVERED]_vars

\* C24: a message is sent only when what it reports is committed, and a
\* notification that fails undoes nothing: whenever the winner has been told
\* of an auction the auction is finalized in the database, whenever the seller
\* has been told of a release the hold release is in the seller's log, and a
\* run whose notification raised has still committed its finalization.
C24_NotifyAfterCommit ==
  [][/\ \A n \in notifications' :
          /\ n[1] = "won" => auctions'[n[2]].status = FINALIZED
          /\ n[1] = "released"
               => \E i \in DOMAIN transactions'[OrderSeller(n[2])] :
                    /\ transactions'[OrderSeller(n[2])][i].type = HOLD_RELEASE
                    /\ transactions'[OrderSeller(n[2])][i].reference_id = n[2]
     /\ Made.res = "NotificationError" => Database' # Database]_vars

\* C25: a bid is taken only while the auction is active: whenever
\* place_auction_bid locks the bidder's funds, the auction's status is active
\* and the time is within its start and its effective end.
C25_BidOnlyWhileActive ==
  [][( Made.op = "place_auction_bid" /\ Made.res = "ok" )
       => \A a \in Auctions :
            /\ auctions[a].status = ACTIVE
            /\ auctions[a].starts_at <= now
            /\ now <= ( IF auctions[a].extended_until # NULL
                          THEN auctions[a].extended_until ELSE auctions[a].ends_at )]_vars

\* C26: the price of an auction only rises: a bid at or below current_price is
\* refused, a bid that is taken becomes the current_price, and no bid lowers
\* the current_price.
C26_PriceRises ==
  [][Made.op = "place_auction_bid"
       => \A a \in Auctions :
            /\ Made.amount <= auctions[a].current_price => Made.res # "ok"
            /\ Made.res = "ok" => auctions'[a].current_price = Made.amount
            /\ auctions'[a].current_price >= auctions[a].current_price]_vars

\* C27: a bidder holds at most one active lock on an auction, whatever bids
\* and re-bids were made.
C27_OneLockPerBidder ==
  \A u \in Users, a \in Auctions :
    Cardinality({i \in DOMAIN fund_locks[u] :
                   /\ fund_locks[u][i].is_active
                   /\ fund_locks[u][i].reference_type = "auction"
                   /\ fund_locks[u][i].reference_id = a}) <= 1

\* C28: a bid taken over another bidder's winning bid releases that bidder's
\* lock and keeps its own: after the bid the outbid bidder has no active lock
\* on the auction and a locked balance lower by the amount of that lock, and
\* the new bidder has an active lock of the amount bid.
C28_OutbidLockReleased ==
  [][( Made.op = "place_auction_bid" /\ Made.res = "ok" )
       => \A a \in Auctions :
            LET A == auctions[a].winner_id
                held == {i \in DOMAIN fund_locks[A] :
                           /\ fund_locks[A][i].is_active
                           /\ fund_locks[A][i].reference_type = "auction"
                           /\ fund_locks[A][i].reference_id = a}
            IN ( /\ A # NULL
                 /\ A # Made.user
                 /\ Made.amount > auctions[a].current_price
                 /\ held # {} )
                 => /\ \A i \in held : ~fund_locks'[A][i].is_active
                    /\ wallets'[A].locked_balance < wallets[A].locked_balance
                    /\ \E j \in DOMAIN fund_locks'[Made.user] :
                         /\ fund_locks'[Made.user][j].is_active
                         /\ fund_locks'[Made.user][j].amount = Made.amount
                         /\ fund_locks'[Made.user][j].reference_id = a]_vars

\* C29: a bid that is taken within the extension threshold of the effective
\* end moves the end to the time of the bid plus the extension window, and a
\* bid taken earlier leaves extended_until as it was.
C29_BidExtendsAuction ==
  [][( Made.op = "place_auction_bid" /\ Made.res = "ok" )
       => \A a \in Auctions :
            IF should_extend(auctions[a], now, ExtensionMinutes)
              THEN auctions'[a].extended_until = now + ExtensionMinutes \div 60
              ELSE auctions'[a].extended_until = auctions[a].extended_until]_vars

\* C30: an active auction that has a winner and is past its effective end is
\* eventually finalized by the scheduler: its status becomes finalized,
\* finalized_at is set, the seller holds the proceeds and no loser's lock on
\* the auction is active.
C30_EndedAuctionFinalized ==
  \A a \in Auctions :
    ( /\ auctions[a].status = ACTIVE
      /\ auctions[a].winner_id # NULL
      /\ ( IF auctions[a].extended_until # NULL
             THEN auctions[a].extended_until ELSE auctions[a].ends_at ) < now )
      ~> ( /\ auctions[a].status = FINALIZED
           /\ auctions[a].finalized_at # NULL
           /\ wallets[auctions[a].seller_id].locked_balance > 0
           /\ \A u \in Users \ {auctions[a].winner_id} :
                \A i \in DOMAIN fund_locks[u] :
                  ( fund_locks[u][i].reference_type = "auction"
                    /\ fund_locks[u][i].reference_id = a )
                    => ~fund_locks[u][i].is_active )

\* C31: a run of the finalization job that finds an ended auction without a
\* winner sets it to ended and does nothing else: no wallet, no transaction
\* and no fund lock is created or changed.
C31_NoWinnerEndsOnly ==
  [][Made.op = "finalize_ended_auctions"
       => \A a \in Auctions :
            ( /\ auctions[a].status = ACTIVE
              /\ auctions[a].winner_id = NULL
              /\ ( IF auctions[a].extended_until # NULL
                     THEN auctions[a].extended_until ELSE auctions[a].ends_at ) <= now )
              => /\ auctions'[a] = [auctions[a] EXCEPT !.status = ENDED]
                 /\ wallets' = wallets
                 /\ transactions' = transactions
                 /\ fund_locks' = fund_locks]_vars

\* C31 witness: the job has ended an auction that has no winner and on which a
\* bid is locked.
C31_Witness ==
  /\ last.op = "finalize_ended_auctions"
  /\ \E a \in Auctions :
       /\ auctions[a].status = ENDED
       /\ auctions[a].winner_id = NULL
       /\ \E u \in Users : \E i \in DOMAIN fund_locks[u] :
            fund_locks[u][i].is_active /\ fund_locks[u][i].reference_id = a

\* C32: an auction is finalized once: whatever runs of the finalization job
\* follow or overlap, the log of its winner holds at most one purchase debit
\* for the auction and the log of its seller at most one hold.
C32_FinalizedOnce ==
  \A a \in Auctions : \A u \in Users :
    /\ Cardinality({i \in DOMAIN transactions[u] :
                      /\ transactions[u][i].type = PURCHASE_DEBIT
                      /\ transactions[u][i].reference_id = AuctionOrderRef(a)}) <= 1
    /\ Cardinality({i \in DOMAIN transactions[u] :
                      /\ transactions[u][i].type = HOLD_LOCK
                      /\ transactions[u][i].reference_id = AuctionOrderRef(a)}) <= 1

\* C33: the finalization of an auction is all or nothing: a run that ends with
\* an exception leaves the auction, the locks, the wallets and the logs as
\* they were, and a run that moves an auction with a winner out of active has
\* recorded the winner's debit and the seller's hold in the same step.
C33_FinalizationAtomic ==
  [][Made.op = "finalize_ended_auctions"
       => /\ Made.res # "ok"
               => /\ auctions' = auctions
                  /\ fund_locks' = fund_locks
                  /\ wallets' = wallets
                  /\ transactions' = transactions
          /\ \A a \in Auctions :
               ( auctions[a].winner_id # NULL /\ auctions'[a].status # auctions[a].status )
                 => /\ \E tx \in Appended(auctions[a].winner_id) : tx.type = PURCHASE_DEBIT
                    /\ \E tx \in Appended(auctions[a].seller_id) : tx.type = HOLD_LOCK]_vars

\* C33 witness: a run has failed on the winner's debit while a losing bid is
\* locked on the auction, and the losing lock is still active.
C33_Witness ==
  /\ returned.op = "finalize_ended_auctions"
  /\ returned.res = "InsufficientFundsError"
  /\ \E a \in Auctions :
       /\ auctions[a].status = ACTIVE
       /\ auctions[a].winner_id # NULL
       /\ \E u \in Users \ {auctions[a].winner_id} : \E i \in DOMAIN fund_locks[u] :
            fund_locks[u][i].is_active /\ fund_locks[u][i].reference_id = a

RECURSIVE ActiveLockSum(_)
ActiveLockSum(locks) ==
  IF locks = <<>> THEN 0
  ELSE ( IF Head(locks).is_active THEN Head(locks).amount ELSE 0 )
         + ActiveLockSum(Tail(locks))

\* The sum of the holds recorded in the first n rows of a log that are not
\* discharged: no later row of the log is a hold release, or a release of the
\* amount of the hold, under the reference of the hold.
RECURSIVE OutstandingHolds(_, _)
OutstandingHolds(log, n) ==
  IF n = 0 THEN 0
  ELSE ( IF /\ log[n].type = HOLD_LOCK
            /\ ~\E j \in (n + 1)..Len(log) :
                  /\ \/ log[j].type = HOLD_RELEASE
                     \/ log[j].type = RELEASE /\ log[j].amount = log[n].amount
                  /\ log[j].reference_type = log[n].reference_type
                  /\ log[j].reference_id = log[n].reference_id
           THEN log[n].amount ELSE 0 )
         + OutstandingHolds(log, n - 1)

\* C35: the locked balance of every wallet is what its active fund locks and
\* its undischarged seller holds add up to, in every state.
C35_LockedIsLocksAndHolds ==
  \A u \in Users :
    wallets[u].locked_balance
      = ActiveLockSum(fund_locks[u]) + OutstandingHolds(transactions[u], Len(transactions[u]))

\* The sum of the amounts of the rows of a type that a log holds for an order.
RECURSIVE OrderAmount(_, _, _)
OrderAmount(log, type, order_id) ==
  IF log = <<>> THEN 0
  ELSE ( IF /\ Head(log).type = type
            /\ Head(log).reference_type = "order"
            /\ Head(log).reference_id = order_id
           THEN Head(log).amount ELSE 0 )
         + OrderAmount(Tail(log), type, order_id)

\* C36: no order pays back more than it took: what the seller's hold releases
\* credit and what the refunds return to the buyer is at most what the
\* purchase debited from the buyer, and the seller's log has at most one hold
\* release for the order.
C36_NoMoreBackThanPaid ==
  \A o \in Orders :
    /\ OrderAmount(transactions[OrderSeller(o)], HOLD_RELEASE, o)
         + OrderAmount(transactions[OrderBuyer(o)], REFUND, o)
         <= OrderAmount(transactions[OrderBuyer(o)], PURCHASE_DEBIT, o)
    /\ Cardinality({i \in DOMAIN transactions[OrderSeller(o)] :
                      /\ transactions[OrderSeller(o)][i].type = HOLD_RELEASE
                      /\ transactions[OrderSeller(o)][i].reference_id = o}) <= 1

\* C37: the lock of the winning bid outlives the auction: while an auction is
\* active and its effective end has not passed, its winner has an active
\* lock on it.
C37_WinningLockOutlivesAuction ==
  \A a \in Auctions :
    ( /\ auctions[a].status = ACTIVE
      /\ auctions[a].winner_id # NULL
      /\ now <= ( IF auctions[a].extended_until # NULL
                    THEN auctions[a].extended_until ELSE auctions[a].ends_at ) )
      => \E i \in DOMAIN fund_locks[auctions[a].winner_id] :
           /\ fund_locks[auctions[a].winner_id][i].is_active
           /\ fund_locks[auctions[a].winner_id][i].reference_type = "auction"
           /\ fund_locks[auctions[a].winner_id][i].reference_id = a

\* C38: a finalized auction holds no money locked: no fund lock that refers
\* to it is active, the lock of the winner's own bid included.
C38_NoLockAfterFinalization ==
  \A a \in Auctions :
    auctions[a].status = FINALIZED
      => \A u \in Users : \A i \in DOMAIN fund_locks[u] :
           ( fund_locks[u][i].reference_type = "auction" /\ fund_locks[u][i].reference_id = a )
             => ~fund_locks[u][i].is_active

\* C39: purchased_at is written once: no step changes the purchased_at of an
\* order that has one, whether the step delivers the order, confirms it,
\* reports or resolves a dispute, or is a run of the sweep.
C39_PurchasedAtKept ==
  [][\A o \in Orders :
       ( /\ orders[o].purchased_at # NULL
         /\ Made.op \in {"mark_order_delivered", "buyer_confirm_order", "report_dispute",
                         "resolve_dispute", "release_expired_holds"} )
         => orders'[o].purchased_at = orders[o].purchased_at]_vars

\* C40: an order whose release fails does not stop the rest of the job: a
\* run of release_expired_holds in which the release of a due order raises
\* still releases the expired fund locks, those that cleanup_expired_locks
\* run on its own releases.
C40_FailingOrderDoesNotBlock ==
  [][( /\ Made.op = "release_expired_holds"
       /\ ReleaseOrders(Session, OrderList(get_orders_ready_for_release(Session))).err # "none"
       /\ cleanup_expired_locks(Session).err = "none" )
       => \A id \in get_expired_fund_locks(Session) :
            ~fund_locks'[id[1]][id[2]].is_active]_vars

====
